---- MODULE Spec2Model ----
(***************************************************************************)
(* Model of CampaignManager (src/campaign_manager.py): the list of         *)
(* campaigns, and the operations create_campaign, assign_product,          *)
(* generate_tracking_link and monitor_performance.                         *)
(*                                                                         *)
(* Python strings that the code builds by formatting are modelled as       *)
(* sequences of one-character strings, so that f-string concatenation and  *)
(* decimal formatting are computed, not assumed injective.                 *)
(***************************************************************************)
EXTENDS Integers, Sequences, FiniteSets, TLC

(* ---------------------------- bounds ---------------------------------- *)
MaxCampaigns == 2      \* create_campaign is explored while fewer campaigns exist
MaxOps == 3            \* successful assign_product and generate_tracking_link calls explored
MaxCalls == 4          \* calls started by concurrent callers

(* ---------------------------- strings --------------------------------- *)
Digits == <<"0", "1", "2", "3", "4", "5", "6", "7", "8", "9">>

\* str(n) for a natural number n: its decimal digits
RECURSIVE Str(_)
Str(n) == IF n < 10 THEN <<Digits[n + 1]>>
          ELSE Str(n \div 10) \o <<Digits[(n % 10) + 1]>>

IsDigit(ch) == \E d \in 1..10 : Digits[d] = ch

DigitVal(ch) == (CHOOSE d \in 1..10 : Digits[d] = ch) - 1

\* int(s) for a non-empty sequence of digits
RECURSIVE ParseNat(_)
ParseNat(s) == IF Len(s) = 0 THEN 0
               ELSE 10 * ParseNat(SubSeq(s, 1, Len(s) - 1)) + DigitVal(s[Len(s)])

\* the ordinal suffix of a link: the number after its last "_" (0 if none)
OrdinalOf(link) ==
    LET us == {i \in 1..Len(link) : link[i] = "_"}
    IN IF us = {} THEN 0
       ELSE LET last == CHOOSE i \in us : \A j \in us : j <= i
                suffix == SubSeq(link, last + 1, Len(link))
            IN IF Len(suffix) > 0 /\ \A k \in 1..Len(suffix) : IsDigit(suffix[k])
               THEN ParseNat(suffix) ELSE 0

(* ---------------------------- inputs ---------------------------------- *)
\* (name, platform) arguments of create_campaign
CampaignInputs == {<<"", "Facebook">>, <<"Summer Sale", "Google">>}

\* product identifier number i: "p1", "p2", ...
Pid(i) == <<"p">> \o Str(i)

\* the product ids callers and the selector use
ProductIds == {Pid(1), Pid(2)}

\* a product record as returned by ProductSelector: exposes at least an id
Product(pid) == [id |-> pid]

\* sequences without repetition over a set, of length at most n
RECURSIVE SeqsNoDup(_, _)
SeqsNoDup(S, n) ==
    IF n = 0 \/ S = {} THEN {<<>>}
    ELSE {<<>>} \cup {<<x>> \o t : x \in S, t \in SeqsNoDup(S, n - 1)}

Distinct(s) == \A i, j \in 1..Len(s) : i # j => s[i] # s[j]

\* every ordered selection of distinct product ids
Selections == {s \in SeqsNoDup(ProductIds, Cardinality(ProductIds)) : Distinct(s)}

\* candidate lists handed to assign_product: each set of product ids, listed
\* in ascending order
CandidateLists == {s \in Selections :
                     \A i, j \in 1..Len(s) : i < j =>
                        \E a, b \in 1..Cardinality(ProductIds) : a < b /\ s[i] = Pid(a) /\ s[j] = Pid(b)}

\* f"cid_{n}"
CidOf(n) == <<"c", "i", "d", "_">> \o Str(n)

\* campaign ids a caller may pass: every id that can exist and one that
\* is never issued
CampaignIdInputs == {CidOf(n) : n \in 1..(MaxCampaigns + 1)}

(* ---------------------------- collaborators --------------------------- *)
\* ProductSelector.select(products=P): a curated, ordered selection of the
\* candidates, as Product records
SelectOutputs(P) ==
    {[i \in 1..Len(s) |-> Product(s[i])] :
        s \in {t \in Selections : \A i \in 1..Len(t) : \E j \in 1..Len(P) : P[j] = t[i]}}

\* self._get_base_url(platform): the URL prefix of a platform
_get_base_url(platform) ==
    IF platform = "Facebook" THEN <<"f", "b">>
    ELSE IF platform = "Google" THEN <<"g", "o">>
    ELSE <<>>

(* ---------------------------- state ----------------------------------- *)
VARIABLES
    campaigns,   \* self.campaigns: list of campaign records
    result,      \* the last call: operation, arguments, outcome, return value
    issued,      \* history: the ids returned by create_campaign, in order
    ops,         \* history: successful assign_product and generate_tracking_link calls
    genCount,    \* history: successful generate_tracking_link calls per campaign
    lastGen,     \* history: per campaign, product and link of its last success
    everAssigned, \* history: per campaign, the product ids ever put in its products
    pending,     \* concurrent callers: per thread, the call it is in the middle of
    calls,       \* concurrent callers: number of calls started
    raced        \* concurrent callers: two create_campaign calls have overlapped

\* the registry and its history
seqvars == <<campaigns, result, issued, ops, genCount, lastGen, everAssigned>>

\* the variables only concurrent callers change
conc == <<pending, calls, raced>>

vars == <<campaigns, result, issued, ops, genCount, lastGen, everAssigned,
          pending, calls, raced>>

\* concurrent callers, and the local state of one that is between calls
Threads == {1, 2}

Idle == [op |-> "idle"]

\* outcomes
Ok == "ok"
NotFound == "ValueError: campaign does not exist"
NotAssigned == "ValueError: product is not assigned to campaign"
CollaboratorFailure == "ProductSelector failure"

NoString == <<>>
NoGen == [pid |-> NoString, link |-> NoString]

\* a call and its outcome; selCalled: whether it invoked ProductSelector.select,
\* selected: what select returned to it
Call(op, name, platform, cid, pid, kind, value, selCalled, sel) ==
    [op |-> op, name |-> name, platform |-> platform, cid |-> cid,
     pid |-> pid, kind |-> kind, value |-> value, selCalled |-> selCalled,
     selected |-> sel]

\* mutant: the search starts at the second campaign
FindCampaign_SkipFirst(cs, campaign_id) ==
    IF \E i \in 2..Len(cs) : cs[i].id = campaign_id
    THEN CHOOSE i \in 2..Len(cs) :
            /\ cs[i].id = campaign_id
            /\ \A j \in 2..(i - 1) : cs[j].id # campaign_id
    ELSE 0

\* next((c for c in self.campaigns if c["id"] == campaign_id), None):
\* index of the first campaign with that id, 0 for None
FindCampaign(cs, campaign_id) ==
    IF \E i \in 1..Len(cs) : cs[i].id = campaign_id
    THEN CHOOSE i \in 1..Len(cs) :
            /\ cs[i].id = campaign_id
            /\ \A j \in 1..(i - 1) : cs[j].id # campaign_id
    ELSE 0

\* mutant: the first product, whatever its id
FindProduct_Any(products, product_id) == IF Len(products) > 0 THEN 1 ELSE 0

\* next((p for p in campaign["products"] if p["id"] == product_id), None)
FindProduct(products, product_id) ==
    IF \E i \in 1..Len(products) : products[i].id = product_id
    THEN CHOOSE i \in 1..Len(products) :
            /\ products[i].id = product_id
            /\ \A j \in 1..(i - 1) : products[j].id # product_id
    ELSE 0

\* len(campaign["tracking_links"])
LinkCount(c) == Cardinality(DOMAIN c.tracking_links)

Init ==
    /\ campaigns = <<>>
    /\ result = Call("init", "", "", NoString, NoString, Ok, NoString, FALSE, <<>>)
    /\ issued = <<>>
    /\ ops = 0
    /\ genCount = <<>>
    /\ lastGen = <<>>
    /\ everAssigned = <<>>
    /\ pending = [t \in Threads |-> Idle]
    /\ calls = 0
    /\ raced = FALSE

\* the registry after create_campaign("", "Facebook") and an assign_product
\* that selected p1 and p2, with the histories that go with it
InitDeep ==
    /\ campaigns = <<[id |-> CidOf(1), name |-> "", platform |-> "Facebook",
                      status |-> "active",
                      products |-> <<Product(Pid(1)), Product(Pid(2))>>,
                      tracking_links |-> <<>>]>>
    /\ result = Call("assign_product", "", "", CidOf(1), NoString, Ok, NoString,
                     TRUE, <<Product(Pid(1)), Product(Pid(2))>>)
    /\ issued = <<CidOf(1)>>
    /\ ops = 0
    /\ genCount = <<0>>
    /\ lastGen = <<NoGen>>
    /\ everAssigned = <<{Pid(1), Pid(2)}>>
    /\ pending = [t \in Threads |-> Idle]
    /\ calls = 0
    /\ raced = FALSE

(* ---------------------------- operations ------------------------------ *)
\* mutant: the counter is kept per platform
NewCampaignId_PerPlatform(cs, name, platform) ==
    CidOf(Cardinality({i \in 1..Len(cs) : cs[i].platform = platform}) + 1)

\* mutant: the counter starts at zero
NewCampaignId_ZeroBased(cs, name, platform) == CidOf(Len(cs))

\* the id create_campaign gives the next campaign
NewCampaignId(cs, name, platform) == CidOf(Len(cs) + 1)

create_campaign(name, platform) ==
    /\ Len(campaigns) < MaxCampaigns
    /\ LET campaign_id == NewCampaignId(campaigns, name, platform)
       IN /\ campaigns' = Append(campaigns,
                 [id |-> campaign_id, name |-> name, platform |-> platform,
                  status |-> "active", products |-> <<>>,
                  tracking_links |-> <<>>])
          /\ result' = Call("create_campaign", name, platform, NoString,
                            NoString, Ok, campaign_id, FALSE, <<>>)
          /\ issued' = Append(issued, campaign_id)
    /\ genCount' = Append(genCount, 0)
    /\ lastGen' = Append(lastGen, NoGen)
    /\ everAssigned' = Append(everAssigned, {})
    /\ UNCHANGED ops

\* mutant: the selection is appended to the list
AssignProducts_Append(old, selected_products) == old \o selected_products

\* campaign["products"] = selected_products
AssignProducts(old, selected_products) == selected_products

\* mutant: the links of products no longer assigned are deleted
assign_product_Cascade(campaign_id, product_ids) ==
    LET idx == FindCampaign(campaigns, campaign_id)
    IN IF idx = 0
       THEN /\ result' = Call("assign_product", "", "", campaign_id, NoString,
                              NotFound, NoString, FALSE, <<>>)
            /\ UNCHANGED <<campaigns, issued, ops, genCount, lastGen, everAssigned>>
       ELSE \/ \E selected_products \in SelectOutputs(product_ids) :
                 LET ids == {selected_products[k].id : k \in 1..Len(selected_products)}
                     old == campaigns[idx].tracking_links
                 IN /\ ops < MaxOps
                    /\ ops' = ops + 1
                    /\ campaigns' = [campaigns EXCEPT
                           ![idx].products = selected_products,
                           ![idx].tracking_links =
                               [q \in (DOMAIN old) \cap ids |-> old[q]]]
                    /\ result' = Call("assign_product", "", "", campaign_id,
                                      NoString, Ok, NoString, TRUE, selected_products)
                    /\ everAssigned' = [everAssigned EXCEPT ![idx] = @ \cup ids]
                    /\ UNCHANGED <<issued, genCount, lastGen>>
            \/ /\ result' = Call("assign_product", "", "", campaign_id, NoString,
                                 CollaboratorFailure, NoString, TRUE, <<>>)
               /\ UNCHANGED <<campaigns, issued, ops, genCount, lastGen, everAssigned>>

\* mutant: ProductSelector.select is called before the campaign is looked up
assign_product_SelectFirst(campaign_id, product_ids) ==
    LET idx == FindCampaign(campaigns, campaign_id)
    IN \/ \E selected_products \in SelectOutputs(product_ids) :
            IF idx = 0
            THEN /\ result' = Call("assign_product", "", "", campaign_id, NoString,
                                   NotFound, NoString, TRUE, selected_products)
                 /\ UNCHANGED <<campaigns, issued, ops, genCount, lastGen, everAssigned>>
            ELSE /\ ops < MaxOps
                 /\ ops' = ops + 1
                 /\ campaigns' = [campaigns EXCEPT ![idx].products = selected_products]
                 /\ result' = Call("assign_product", "", "", campaign_id,
                                   NoString, Ok, NoString, TRUE, selected_products)
                 /\ everAssigned' = [everAssigned EXCEPT ![idx] =
                        @ \cup {selected_products[k].id : k \in 1..Len(selected_products)}]
                 /\ UNCHANGED <<issued, genCount, lastGen>>
       \/ /\ result' = Call("assign_product", "", "", campaign_id, NoString,
                            CollaboratorFailure, NoString, TRUE, <<>>)
          /\ UNCHANGED <<campaigns, issued, ops, genCount, lastGen, everAssigned>>

assign_product(campaign_id, product_ids) ==
    LET idx == FindCampaign(campaigns, campaign_id)
    IN IF idx = 0
       THEN /\ result' = Call("assign_product", "", "", campaign_id, NoString,
                              NotFound, NoString, FALSE, <<>>)
            /\ UNCHANGED <<campaigns, issued, ops, genCount, lastGen, everAssigned>>
       ELSE \/ \E selected_products \in SelectOutputs(product_ids) :
                 /\ ops < MaxOps
                 /\ ops' = ops + 1
                 /\ campaigns' = [campaigns EXCEPT ![idx].products =
                        AssignProducts(campaigns[idx].products, selected_products)]
                 /\ result' = Call("assign_product", "", "", campaign_id,
                                   NoString, Ok, NoString, TRUE, selected_products)
                 /\ everAssigned' = [everAssigned EXCEPT ![idx] =
                        @ \cup {selected_products[k].id : k \in 1..Len(selected_products)}]
                 /\ UNCHANGED <<issued, genCount, lastGen>>
            \/ \* ProductSelector.select raises: logged and re-raised
               /\ result' = Call("assign_product", "", "", campaign_id, NoString,
                                 CollaboratorFailure, NoString, TRUE, <<>>)
               /\ UNCHANGED <<campaigns, issued, ops, genCount, lastGen, everAssigned>>

\* mutant: the ordinal is the number of links, without the + 1
NextOrdinal_ZeroBased(c) == Cardinality(DOMAIN c.tracking_links)

\* len(campaign["tracking_links"]) + 1
NextOrdinal(c) == LinkCount(c) + 1

\* f"{self._get_base_url(campaign['platform'])}/{product_id}_{ordinal}"
TrackingLink(c, product_id) ==
    _get_base_url(c.platform) \o <<"/">> \o product_id \o <<"_">> \o Str(NextOrdinal(c))

\* campaign["tracking_links"][product_id] = tracking_link
StoreLink(links, product_id, tracking_link) == (product_id :> tracking_link) @@ links

\* mutant: the link is stored before the product is looked up
generate_tracking_link_StoreFirst(campaign_id, product_id) ==
    LET idx == FindCampaign(campaigns, campaign_id)
    IN IF idx = 0
       THEN /\ result' = Call("generate_tracking_link", "", "", campaign_id,
                              product_id, NotFound, NoString, FALSE, <<>>)
            /\ UNCHANGED <<campaigns, issued, ops, genCount, lastGen, everAssigned>>
       ELSE LET tracking_link == TrackingLink(campaigns[idx], product_id)
                assigned == FindProduct(campaigns[idx].products, product_id) # 0
            IN /\ ops < MaxOps
               /\ ops' = ops + 1
               /\ campaigns' = [campaigns EXCEPT ![idx].tracking_links =
                      StoreLink(@, product_id, tracking_link)]
               /\ result' = IF assigned
                             THEN Call("generate_tracking_link", "", "", campaign_id,
                                       product_id, Ok, tracking_link, FALSE, <<>>)
                             ELSE Call("generate_tracking_link", "", "", campaign_id,
                                       product_id, NotAssigned, NoString, FALSE, <<>>)
               /\ lastGen' = IF assigned
                              THEN [lastGen EXCEPT ![idx] =
                                      [pid |-> product_id, link |-> tracking_link]]
                              ELSE lastGen
               /\ genCount' = IF assigned THEN [genCount EXCEPT ![idx] = @ + 1]
                               ELSE genCount
               /\ UNCHANGED <<issued, everAssigned>>

\* mutant: every campaign shares one tracking_links mapping
generate_tracking_link_Shared(campaign_id, product_id) ==
    LET idx == FindCampaign(campaigns, campaign_id)
    IN IF idx = 0
       THEN /\ result' = Call("generate_tracking_link", "", "", campaign_id,
                              product_id, NotFound, NoString, FALSE, <<>>)
            /\ UNCHANGED <<campaigns, issued, ops, genCount, lastGen, everAssigned>>
       ELSE IF FindProduct(campaigns[idx].products, product_id) = 0
       THEN /\ result' = Call("generate_tracking_link", "", "", campaign_id,
                              product_id, NotAssigned, NoString, FALSE, <<>>)
            /\ UNCHANGED <<campaigns, issued, ops, genCount, lastGen, everAssigned>>
       ELSE /\ ops < MaxOps
            /\ ops' = ops + 1
            /\ LET tracking_link == TrackingLink(campaigns[idx], product_id)
               IN /\ campaigns' = [j \in 1..Len(campaigns) |->
                         [campaigns[j] EXCEPT !.tracking_links =
                             StoreLink(campaigns[idx].tracking_links, product_id,
                                       tracking_link)]]
                  /\ result' = Call("generate_tracking_link", "", "", campaign_id,
                                    product_id, Ok, tracking_link, FALSE, <<>>)
                  /\ lastGen' = [lastGen EXCEPT ![idx] =
                         [pid |-> product_id, link |-> tracking_link]]
            /\ genCount' = [genCount EXCEPT ![idx] = @ + 1]
            /\ UNCHANGED <<issued, everAssigned>>

generate_tracking_link(campaign_id, product_id) ==
    LET idx == FindCampaign(campaigns, campaign_id)
    IN IF idx = 0
       THEN /\ result' = Call("generate_tracking_link", "", "", campaign_id,
                              product_id, NotFound, NoString, FALSE, <<>>)
            /\ UNCHANGED <<campaigns, issued, ops, genCount, lastGen, everAssigned>>
       ELSE IF FindProduct(campaigns[idx].products, product_id) = 0
       THEN /\ result' = Call("generate_tracking_link", "", "", campaign_id,
                              product_id, NotAssigned, NoString, FALSE, <<>>)
            /\ UNCHANGED <<campaigns, issued, ops, genCount, lastGen, everAssigned>>
       ELSE /\ ops < MaxOps
            /\ ops' = ops + 1
            /\ LET tracking_link == TrackingLink(campaigns[idx], product_id)
               IN /\ campaigns' = [campaigns EXCEPT ![idx].tracking_links =
                         StoreLink(@, product_id, tracking_link)]
                  /\ result' = Call("generate_tracking_link", "", "", campaign_id,
                                    product_id, Ok, tracking_link, FALSE, <<>>)
                  /\ lastGen' = [lastGen EXCEPT ![idx] =
                         [pid |-> product_id, link |-> tracking_link]]
            /\ genCount' = [genCount EXCEPT ![idx] = @ + 1]
            /\ UNCHANGED <<issued, everAssigned>>

\* the metrics dictionary is a constant of the code; its value is not modelled
Metrics == <<"m", "e", "t", "r", "i", "c", "s">>

\* mutant: monitoring marks the campaign
monitor_performance_Touch(campaign_id) ==
    LET idx == FindCampaign(campaigns, campaign_id)
    IN IF idx = 0
       THEN /\ result' = Call("monitor_performance", "", "", campaign_id,
                              NoString, NotFound, NoString, FALSE, <<>>)
            /\ UNCHANGED <<campaigns, issued, ops, genCount, lastGen, everAssigned>>
       ELSE /\ campaigns' = [campaigns EXCEPT ![idx].status = "monitored"]
            /\ result' = Call("monitor_performance", "", "", campaign_id,
                              NoString, Ok, Metrics, FALSE, <<>>)
            /\ UNCHANGED <<issued, ops, genCount, lastGen, everAssigned>>

monitor_performance(campaign_id) ==
    LET idx == FindCampaign(campaigns, campaign_id)
    IN IF idx = 0
       THEN /\ result' = Call("monitor_performance", "", "", campaign_id,
                              NoString, NotFound, NoString, FALSE, <<>>)
            /\ UNCHANGED <<campaigns, issued, ops, genCount, lastGen, everAssigned>>
       ELSE /\ result' = Call("monitor_performance", "", "", campaign_id,
                              NoString, Ok, Metrics, FALSE, <<>>)
            /\ UNCHANGED <<campaigns, issued, ops, genCount, lastGen, everAssigned>>

\* one call by a single caller
Call1 ==
    \/ \E in \in CampaignInputs : create_campaign(in[1], in[2])
    \/ \E cid \in CampaignIdInputs, P \in CandidateLists : assign_product(cid, P)
    \/ \E cid \in CampaignIdInputs, pid \in ProductIds : generate_tracking_link(cid, pid)
    \/ \E cid \in CampaignIdInputs : monitor_performance(cid)

Next ==
    \/ /\ \E in \in CampaignInputs : create_campaign(in[1], in[2])
       /\ UNCHANGED conc
    \/ /\ \E cid \in CampaignIdInputs, P \in CandidateLists : assign_product(cid, P)
       /\ UNCHANGED conc
    \/ /\ \E cid \in CampaignIdInputs, pid \in ProductIds : generate_tracking_link(cid, pid)
       /\ UNCHANGED conc
    \/ /\ \E cid \in CampaignIdInputs : monitor_performance(cid)
       /\ UNCHANGED conc

Spec == Init /\ [][Next]_vars

(* ---------------------------- concurrent callers --------------------- *)
(* The callers of Threads run the same handlers, each handler in two       *)
(* steps: its reads (lookup, checks, the values it computes) and then its  *)
(* write.  A handler that found its campaign holds that campaign's lock     *)
(* from its reads to its write; create_campaign names no campaign and      *)
(* holds no lock.  A call takes effect, and is recorded in result, at the  *)
(* step that ends it.                                                      *)

\* the campaign whose lock thread t holds, 0 for none
Holds(t) == IF pending[t].op \in {"assign_product", "generate_tracking_link"}
            THEN pending[t].idx ELSE 0

\* campaign i is locked by some caller
Locked(i) == \E t \in Threads : Holds(t) = i

Creating == {t \in Threads : pending[t].op = "create_campaign"}

Writing == {t \in Threads : Holds(t) # 0}

\* line 25: the id is computed from the length of the list
create_campaign_read(t, name, platform) ==
    /\ pending[t].op = "idle"
    /\ calls < MaxCalls
    /\ Len(campaigns) + Cardinality(Creating) < MaxCampaigns
    /\ pending' = [pending EXCEPT ![t] =
          [op |-> "create_campaign", name |-> name, platform |-> platform,
           campaign_id |-> NewCampaignId(campaigns, name, platform)]]
    /\ calls' = calls + 1
    /\ raced' = (raced \/ Creating # {})
    /\ UNCHANGED seqvars

\* mutant: the record is inserted at the front of the list
create_campaign_write_Front(t) ==
    /\ pending[t].op = "create_campaign"
    /\ LET campaign_id == pending[t].campaign_id
       IN /\ campaigns' = <<[id |-> campaign_id, name |-> pending[t].name,
                            platform |-> pending[t].platform, status |-> "active",
                            products |-> <<>>, tracking_links |-> <<>>]>> \o campaigns
          /\ result' = Call("create_campaign", pending[t].name, pending[t].platform,
                            NoString, NoString, Ok, campaign_id, FALSE, <<>>)
          /\ issued' = Append(issued, campaign_id)
    /\ genCount' = Append(genCount, 0)
    /\ lastGen' = Append(lastGen, NoGen)
    /\ everAssigned' = Append(everAssigned, {})
    /\ pending' = [pending EXCEPT ![t] = Idle]
    /\ UNCHANGED <<ops, calls, raced>>

\* lines 26-35: the record is appended and the id returned
create_campaign_write(t) ==
    /\ pending[t].op = "create_campaign"
    /\ LET campaign_id == pending[t].campaign_id
       IN /\ campaigns' = Append(campaigns,
                 [id |-> campaign_id, name |-> pending[t].name,
                  platform |-> pending[t].platform, status |-> "active",
                  products |-> <<>>, tracking_links |-> <<>>])
          /\ result' = Call("create_campaign", pending[t].name, pending[t].platform,
                            NoString, NoString, Ok, campaign_id, FALSE, <<>>)
          /\ issued' = Append(issued, campaign_id)
    /\ genCount' = Append(genCount, 0)
    /\ lastGen' = Append(lastGen, NoGen)
    /\ everAssigned' = Append(everAssigned, {})
    /\ pending' = [pending EXCEPT ![t] = Idle]
    /\ UNCHANGED <<ops, calls, raced>>

\* lines 49-54: the lookup and the call of ProductSelector.select
assign_product_read(t, campaign_id, product_ids) ==
    /\ pending[t].op = "idle"
    /\ calls < MaxCalls
    /\ calls' = calls + 1
    /\ UNCHANGED raced
    /\ LET idx == FindCampaign(campaigns, campaign_id)
       IN IF idx = 0
          THEN /\ result' = Call("assign_product", "", "", campaign_id, NoString,
                                 NotFound, NoString, FALSE, <<>>)
               /\ UNCHANGED <<campaigns, issued, ops, genCount, lastGen,
                              everAssigned, pending>>
          ELSE /\ ~Locked(idx)
               /\ \/ \E selected_products \in SelectOutputs(product_ids) :
                        /\ ops + Cardinality(Writing) < MaxOps
                        /\ pending' = [pending EXCEPT ![t] =
                              [op |-> "assign_product", idx |-> idx,
                               campaign_id |-> campaign_id,
                               selected_products |-> selected_products]]
                        /\ UNCHANGED seqvars
                  \/ /\ result' = Call("assign_product", "", "", campaign_id,
                                       NoString, CollaboratorFailure, NoString,
                                       TRUE, <<>>)
                     /\ UNCHANGED <<campaigns, issued, ops, genCount, lastGen,
                                    everAssigned, pending>>

\* line 55: the selection is stored in the campaign found
assign_product_write(t) ==
    /\ pending[t].op = "assign_product"
    /\ LET idx == pending[t].idx
           selected_products == pending[t].selected_products
       IN /\ campaigns' = [campaigns EXCEPT ![idx].products =
                 AssignProducts(campaigns[idx].products, selected_products)]
          /\ result' = Call("assign_product", "", "", pending[t].campaign_id,
                            NoString, Ok, NoString, TRUE, selected_products)
          /\ everAssigned' = [everAssigned EXCEPT ![idx] =
                 @ \cup {selected_products[k].id : k \in 1..Len(selected_products)}]
    /\ ops' = ops + 1
    /\ pending' = [pending EXCEPT ![t] = Idle]
    /\ UNCHANGED <<issued, genCount, lastGen, calls, raced>>

\* lines 74-83: the lookups and the link, built from the current length
generate_tracking_link_read(t, campaign_id, product_id) ==
    /\ pending[t].op = "idle"
    /\ calls < MaxCalls
    /\ calls' = calls + 1
    /\ UNCHANGED raced
    /\ LET idx == FindCampaign(campaigns, campaign_id)
       IN IF idx = 0
          THEN /\ result' = Call("generate_tracking_link", "", "", campaign_id,
                                 product_id, NotFound, NoString, FALSE, <<>>)
               /\ UNCHANGED <<campaigns, issued, ops, genCount, lastGen,
                              everAssigned, pending>>
          ELSE /\ ~Locked(idx)
               /\ IF FindProduct(campaigns[idx].products, product_id) = 0
                  THEN /\ result' = Call("generate_tracking_link", "", "",
                                         campaign_id, product_id, NotAssigned,
                                         NoString, FALSE, <<>>)
                       /\ UNCHANGED <<campaigns, issued, ops, genCount, lastGen,
                                      everAssigned, pending>>
                  ELSE /\ ops + Cardinality(Writing) < MaxOps
                       /\ pending' = [pending EXCEPT ![t] =
                             [op |-> "generate_tracking_link", idx |-> idx,
                              campaign_id |-> campaign_id, product_id |-> product_id,
                              tracking_link |-> TrackingLink(campaigns[idx], product_id)]]
                       /\ UNCHANGED seqvars

\* lines 84-86: the link is stored and returned
generate_tracking_link_write(t) ==
    /\ pending[t].op = "generate_tracking_link"
    /\ LET idx == pending[t].idx
           product_id == pending[t].product_id
           tracking_link == pending[t].tracking_link
       IN /\ campaigns' = [campaigns EXCEPT ![idx].tracking_links =
                 StoreLink(@, product_id, tracking_link)]
          /\ result' = Call("generate_tracking_link", "", "", pending[t].campaign_id,
                            product_id, Ok, tracking_link, FALSE, <<>>)
          /\ lastGen' = [lastGen EXCEPT ![idx] =
                 [pid |-> product_id, link |-> tracking_link]]
          /\ genCount' = [genCount EXCEPT ![idx] = @ + 1]
    /\ ops' = ops + 1
    /\ pending' = [pending EXCEPT ![t] = Idle]
    /\ UNCHANGED <<issued, everAssigned, calls, raced>>

\* lines 102-114: reads only, under the lock of the campaign found
monitor_performance_locked(t, campaign_id) ==
    /\ pending[t].op = "idle"
    /\ calls < MaxCalls
    /\ calls' = calls + 1
    /\ LET idx == FindCampaign(campaigns, campaign_id)
       IN /\ idx # 0 => ~Locked(idx)
          /\ result' = Call("monitor_performance", "", "", campaign_id, NoString,
                            IF idx = 0 THEN NotFound ELSE Ok,
                            IF idx = 0 THEN NoString ELSE Metrics, FALSE, <<>>)
    /\ UNCHANGED <<campaigns, issued, ops, genCount, lastGen, everAssigned,
                   pending, raced>>

NextConc ==
    \/ \E t \in Threads, in \in CampaignInputs : create_campaign_read(t, in[1], in[2])
    \/ \E t \in Threads : create_campaign_write(t)
    \/ \E t \in Threads, cid \in CampaignIdInputs, P \in CandidateLists :
          assign_product_read(t, cid, P)
    \/ \E t \in Threads : assign_product_write(t)
    \/ \E t \in Threads, cid \in CampaignIdInputs, pid \in ProductIds :
          generate_tracking_link_read(t, cid, pid)
    \/ \E t \in Threads : generate_tracking_link_write(t)
    \/ \E t \in Threads, cid \in CampaignIdInputs : monitor_performance_locked(t, cid)

SpecConc == Init /\ [][NextConc]_vars

\* a single caller, starting from a registry that is already in use
SpecDeep == InitDeep /\ [][Next]_vars

(* ---------------------------- helpers for the properties -------------- *)
\* the ids of the products in a campaign's products list
AssignedIds(c) == {c.products[k].id : k \in 1..Len(c.products)}

\* the campaigns carrying a given id
Holders(cs, campaign_id) == {i \in 1..Len(cs) : cs[i].id = campaign_id}

GenOk(r) == r.op = "generate_tracking_link" /\ r.kind = Ok

(* ---------------------------- C1 -------------------------------------- *)
\* C1: every identifier returned by create_campaign differs from every
\* identifier returned earlier, and no two campaigns in the registry share
\* an id.
C1_UniqueIds ==
    /\ \A i, j \in 1..Len(issued) : i # j => issued[i] # issued[j]
    /\ \A i, j \in 1..Len(campaigns) : i # j => campaigns[i].id # campaigns[j].id

\* two campaigns exist, created around other registry operations
C1_Witness ==
    /\ Len(issued) >= 2
    /\ result.op = "create_campaign"
    /\ campaigns[1].products # <<>>

(* ---------------------------- C2 -------------------------------------- *)
\* C2: generate_tracking_link fails with NotFound when no campaign has the
\* id, fails with NotAssigned when the campaign exists and the product is not
\* in its products list, changes nothing in either case, and succeeds only
\* for a product that is in the products list when it is called.
C2_LinkChecks ==
    [][result'.op = "generate_tracking_link" =>
         LET held == Holders(campaigns, result'.cid)
         IN /\ held = {} => result'.kind = NotFound /\ campaigns' = campaigns
            /\ (held # {} /\ \A i \in held : result'.pid \notin AssignedIds(campaigns[i]))
                  => result'.kind = NotAssigned /\ campaigns' = campaigns
            /\ result'.kind = Ok =>
                  \E i \in held : result'.pid \in AssignedIds(campaigns[i])]_vars

\* a call for a product that the campaign, which has other products, lacks
C2_Witness ==
    /\ result.op = "generate_tracking_link"
    /\ result.kind = NotAssigned
    /\ \E i \in Holders(campaigns, result.cid) :
          /\ campaigns[i].products # <<>>
          /\ result.pid \notin AssignedIds(campaigns[i])

(* ---------------------------- C3 -------------------------------------- *)
\* C3: after a successful assign_product the campaign's products list is
\* exactly what ProductSelector.select returned, same elements in the same
\* order, whatever it held before.
C3_ProductsReplaced ==
    (result.op = "assign_product" /\ result.kind = Ok) =>
        /\ Holders(campaigns, result.cid) # {}
        /\ \A i \in Holders(campaigns, result.cid) :
              campaigns[i].products = result.selected

\* a second assignment: a product linked under the earlier assignment is
\* no longer in the list, which now holds another product
C3_Witness ==
    /\ result.op = "assign_product"
    /\ result.kind = Ok
    /\ result.selected # <<>>
    /\ \E i \in Holders(campaigns, result.cid) :
          \E pid \in DOMAIN campaigns[i].tracking_links :
              pid \notin AssignedIds(campaigns[i])

(* ---------------------------- C4 -------------------------------------- *)
\* C4: when a successful generate_tracking_link on a campaign follows a
\* successful one on the same campaign for a different product, the ordinal
\* suffix of the later link is strictly greater than that of the earlier.
C4_StrictlyIncreasing ==
    [][GenOk(result') =>
         \A i \in Holders(campaigns, result'.cid) :
            (lastGen[i] # NoGen /\ lastGen[i].pid # result'.pid) =>
                OrdinalOf(result'.value) > OrdinalOf(lastGen[i].link)]_vars

(* ---------------------------- C5 -------------------------------------- *)
\* C5: the n-th successful generate_tracking_link call on a campaign
\* produces a link with ordinal n.
C5_Gapless ==
    GenOk(result) =>
        \A i \in Holders(campaigns, result.cid) :
            OrdinalOf(result.value) = genCount[i]

(* ---------------------------- C6 -------------------------------------- *)
\* C6: a call that fails (NotFound, NotAssigned, or a ProductSelector
\* failure) leaves the list of campaigns exactly as it was.
C6_FailureChangesNothing ==
    [][result'.kind # Ok => campaigns' = campaigns]_vars

\* a ProductSelector failure on a campaign that has products and links
C6_Witness ==
    /\ result.kind = CollaboratorFailure
    /\ \E i \in Holders(campaigns, result.cid) :
          /\ campaigns[i].products # <<>>
          /\ DOMAIN campaigns[i].tracking_links # {}

(* ---------------------------- C7 -------------------------------------- *)
\* C7: monitor_performance, for an existing or an unknown id, leaves the
\* list of campaigns and every field of every campaign as it was.
C7_MonitorReadOnly ==
    [][result'.op = "monitor_performance" => campaigns' = campaigns]_vars

\* a successful monitoring call on a campaign that has products and links
C7_Witness ==
    /\ result.op = "monitor_performance"
    /\ result.kind = Ok
    /\ \E i \in Holders(campaigns, result.cid) :
          /\ campaigns[i].products # <<>>
          /\ DOMAIN campaigns[i].tracking_links # {}

(* ---------------------------- C8 -------------------------------------- *)
\* C8: when the campaign already holds a link for the product, a successful
\* generate_tracking_link returns a link different from the stored one, and
\* afterwards the mapping holds the returned link for that product.
C8_RegenerationDiffers ==
    [][GenOk(result') =>
         \A i \in Holders(campaigns, result'.cid) :
            result'.pid \in DOMAIN campaigns[i].tracking_links =>
                /\ result'.value # campaigns[i].tracking_links[result'.pid]
                /\ campaigns'[i].tracking_links[result'.pid] = result'.value]_vars

(* ---------------------------- C9 -------------------------------------- *)
\* C9: no two distinct (campaign, product) entries of the registry hold the
\* same link string.
C9_LinksUnique ==
    \A i, j \in 1..Len(campaigns) :
        \A p \in DOMAIN campaigns[i].tracking_links :
            \A q \in DOMAIN campaigns[j].tracking_links :
                (i # j \/ p # q) =>
                    campaigns[i].tracking_links[p] # campaigns[j].tracking_links[q]

(* ---------------------------- C10 ------------------------------------- *)
\* C10: the n-th create_campaign call succeeds, returns cid_n and appends
\* exactly one record with that id, the given name and platform, status
\* active, no products and no tracking links, leaving the others in place.
C10_CreateCampaign ==
    [][result'.op = "create_campaign" =>
         LET n == Len(issued) + 1
             id == <<"c", "i", "d", "_">> \o Str(n)
         IN /\ result'.kind = Ok
            /\ result'.value = id
            /\ campaigns' = Append(campaigns,
                   [id |-> id, name |-> result'.name, platform |-> result'.platform,
                    status |-> "active", products |-> <<>>, tracking_links |-> <<>>])]_vars

\* a second campaign created with the same, empty, name as the first
C10_Witness ==
    /\ result.op = "create_campaign"
    /\ result.value = <<"c", "i", "d", "_", "2">>
    /\ Len(campaigns) = 2
    /\ campaigns[1].name = "" /\ campaigns[2].name = ""

(* ---------------------------- C11 ------------------------------------- *)
\* C11: across any operation the key set of a campaign's tracking_links
\* never loses a key, and assign_product leaves every campaign's
\* tracking_links as it was, orphaned entries included.
C11_LinksNeverShrink ==
    [][/\ \A i \in 1..Len(campaigns) :
            /\ i <= Len(campaigns')
            /\ DOMAIN campaigns[i].tracking_links \subseteq
                   DOMAIN campaigns'[i].tracking_links
       /\ result'.op = "assign_product" =>
            \A i \in 1..Len(campaigns) :
                campaigns'[i].tracking_links = campaigns[i].tracking_links]_vars

\* an assignment that emptied the products of a campaign that has a link
C11_Witness ==
    /\ result.op = "assign_product"
    /\ result.kind = Ok
    /\ result.selected = <<>>
    /\ \E i \in Holders(campaigns, result.cid) :
          DOMAIN campaigns[i].tracking_links # {}

(* ---------------------------- C13 ------------------------------------- *)
\* C13: a product has a link in a campaign only if an assign_product on
\* that campaign has succeeded with a selection containing the product; a
\* campaign that never had a product assigned has no tracking links.
C13_AssignBeforeLink ==
    /\ GenOk(result) =>
          \A i \in Holders(campaigns, result.cid) : result.pid \in everAssigned[i]
    /\ \A i \in 1..Len(campaigns) :
          /\ DOMAIN campaigns[i].tracking_links \subseteq everAssigned[i]
          /\ everAssigned[i] = {} => DOMAIN campaigns[i].tracking_links = {}

\* a link was generated in one campaign while another, created earlier,
\* never had a product
C13_Witness ==
    /\ GenOk(result)
    /\ Len(campaigns) = 2
    /\ everAssigned[1] = {}
    /\ result.cid = campaigns[2].id

(* ---------------------------- C14 ------------------------------------- *)
\* C14: a successful generate_tracking_link returns the base URL of the
\* campaign's platform, "/", the product id, "_" and 1 plus the number of
\* entries the mapping had before the call; stores that link under the
\* product id; and leaves the other entries and the products unchanged.
C14_LinkFormat ==
    [][GenOk(result') =>
         \A i \in Holders(campaigns, result'.cid) :
            LET c == campaigns[i]
                d == campaigns'[i]
                n == 1 + Cardinality(DOMAIN c.tracking_links)
            IN /\ result'.value = _get_base_url(c.platform) \o <<"/">>
                                     \o result'.pid \o <<"_">> \o Str(n)
               /\ OrdinalOf(result'.value) = n
               /\ DOMAIN d.tracking_links =
                     DOMAIN c.tracking_links \cup {result'.pid}
               /\ d.tracking_links[result'.pid] = result'.value
               /\ \A q \in DOMAIN c.tracking_links :
                     q # result'.pid => d.tracking_links[q] = c.tracking_links[q]
               /\ d.products = c.products]_vars

\* a link generated for a second product of a campaign
C14_Witness ==
    /\ GenOk(result)
    /\ \E i \in Holders(campaigns, result.cid) :
          /\ Cardinality(DOMAIN campaigns[i].tracking_links) = 2
          /\ OrdinalOf(result.value) = 2

(* ---------------------------- C15 ------------------------------------- *)
\* C15: assign_product, generate_tracking_link and monitor_performance
\* leave every campaign other than the one named unchanged and add none;
\* create_campaign leaves every existing campaign unchanged.
C15_OneCampaign ==
    [][/\ result'.op \in {"assign_product", "generate_tracking_link",
                          "monitor_performance"} =>
            /\ Len(campaigns') = Len(campaigns)
            /\ \A j \in 1..Len(campaigns) :
                  campaigns[j].id # result'.cid => campaigns'[j] = campaigns[j]
       /\ result'.op = "create_campaign" =>
            /\ Len(campaigns') >= Len(campaigns)
            /\ \A j \in 1..Len(campaigns) : campaigns'[j] = campaigns[j]]_vars

\* a link generated in the second campaign while the first has products
C15_Witness ==
    /\ GenOk(result)
    /\ Len(campaigns) = 2
    /\ result.cid = campaigns[2].id
    /\ campaigns[1].products # <<>>
    /\ campaigns[1].tracking_links # campaigns[2].tracking_links

(* ---------------------------- C16 ------------------------------------- *)
\* C16: assign_product with an id no campaign has fails with NotFound
\* without ProductSelector.select being called; when the campaign exists and
\* select fails, the call fails with that failure and the products stay.
C16_AssignErrors ==
    [][result'.op = "assign_product" =>
         /\ Holders(campaigns, result'.cid) = {} =>
               result'.kind = NotFound /\ ~result'.selCalled
         /\ Holders(campaigns, result'.cid) # {} =>
               result'.selCalled /\ result'.kind \in {Ok, CollaboratorFailure}
         /\ result'.kind = CollaboratorFailure => campaigns' = campaigns]_vars

\* an assignment to an unknown id while a campaign exists
C16_Witness ==
    /\ result.op = "assign_product"
    /\ result.kind = NotFound
    /\ ~result.selCalled
    /\ Len(campaigns) >= 1

(* ---------------------------- C17 ------------------------------------- *)
\* C17: after any call every campaign's status is active, and the id, name
\* and platform of an existing campaign are what they were before the call.
C17_FixedFields ==
    [][/\ \A i \in 1..Len(campaigns') : campaigns'[i].status = "active"
       /\ \A i \in 1..Len(campaigns) :
             /\ i <= Len(campaigns')
             /\ campaigns'[i].id = campaigns[i].id
             /\ campaigns'[i].name = campaigns[i].name
             /\ campaigns'[i].platform = campaigns[i].platform]_vars

\* two campaigns with different names, after calls of every other kind
C17_Witness ==
    /\ result.op = "monitor_performance"
    /\ Len(campaigns) = 2
    /\ campaigns[1].name # campaigns[2].name
    /\ \E i \in 1..2 : DOMAIN campaigns[i].tracking_links # {}

(* ---------------------------- C18 ------------------------------------- *)
\* C18: assign_product, generate_tracking_link and monitor_performance
\* with an id create_campaign has returned find exactly one campaign and do
\* not fail with NotFound; with any other id they fail with NotFound.
C18_Persist ==
    [][result'.op \in {"assign_product", "generate_tracking_link",
                       "monitor_performance"} =>
         IF \E k \in 1..Len(issued) : issued[k] = result'.cid
         THEN /\ Cardinality(Holders(campaigns, result'.cid)) = 1
              /\ result'.kind # NotFound
         ELSE result'.kind = NotFound]_vars

\* the first campaign is found after a second was created and used
C18_Witness ==
    /\ result.op \in {"assign_product", "generate_tracking_link",
                      "monitor_performance"}
    /\ result.kind # NotFound
    /\ Len(campaigns) = 2
    /\ result.cid = campaigns[1].id
    /\ campaigns[2].products # <<>>

(* ---------------------------- C12 ------------------------------------- *)
\* C12: with a lock per campaign and nothing else, every step of
\* concurrent callers either leaves the registry as it is or is a call a
\* single caller could make in that state, so that every state reached is
\* one a sequential execution reaches.
C12_PerCampaignLocking == [][Call1]_seqvars

\* C12, amended: the same, as long as no two create_campaign calls have
\* overlapped; the ids in the registry are then distinct.
C12_CreateSerialised ==
    [][~raced' => /\ (Call1 \/ UNCHANGED seqvars)
                  /\ \A i, j \in 1..Len(campaigns') :
                        i # j => campaigns'[i].id # campaigns'[j].id]_vars

\* a create_campaign wrote between the reads and the write of a
\* generate_tracking_link on an existing campaign
C12_Witness ==
    /\ ~raced
    /\ result.op = "create_campaign"
    /\ Len(campaigns) = 2
    /\ \E t \in Threads : pending[t].op = "generate_tracking_link"
====
